---------------------------- MODULE Spec2Model ----------------------------
(***************************************************************************)
(* Model of the subscription-analyzer dashboard.                           *)
(*                                                                         *)
(* Part 1: the alert store of dashboard/src/hooks/useAlerts.jsx            *)
(* (AlertsProvider): the held alert list, the asynchronous fetchAlerts     *)
(* with its functional state update, and the three user operations         *)
(* markAsRead, markAllRead and dismissAlert.                               *)
(*                                                                         *)
(* An alert is modelled by the two fields the store reads or writes,       *)
(* alert_id and is_read; every other field (type, message, ...) is copied  *)
(* untouched by the object spreads of the source and is left out.          *)
(***************************************************************************)
EXTENDS Integers, Sequences, FiniteSets

(* ------------------------------ bounds --------------------------------- *)

\* number of distinct alert ids the alert generator can emit
NumIds == 2

\* longest alert list one response carries
MaxLen == 2

\* number of fetchAlerts calls that can be in flight together
MaxFetches == 1

Ids == 1..NumIds

Fetches == 1..MaxFetches

(* --------------------------- program state ----------------------------- *)

VARIABLES
    alerts,        \* useState([]) : the held alerts, a sequence of records
    loading,       \* useState(true)
    unreadCount,   \* the useMemo cell computed from alerts
    pending,       \* pending[f] : call f of fetchAlerts awaits its response
    \* history variables, written by every action and read only by properties
    last,          \* the operation that produced this state and its inputs
    before,        \* what the store held just before that operation
    markedSince,   \* markedSince[f] : ids marked read since call f began
    dismissed,     \* per id: dismissed and absent / just restored by a refresh
    resolved       \* per id: left out by a refresh while read / just returned

alertVars == <<alerts, loading, unreadCount, pending, last, before, markedSince, dismissed,
               resolved>>

VARIABLES
    subscriptions,  \* the subscriptions prop of PaymentCalendar
    currentMonth,   \* useState(new Date()) : the viewed month, a date
    selectedDate,   \* useState(new Date()) : the selected day
    now             \* the clock: what new Date() returns

calendarVars == <<subscriptions, currentMonth, selectedDate, now>>

VARIABLES
    opportunities,        \* savingsData.opportunities, prop of SavingsModal
    sortedOpportunities,  \* the useMemo cell sorted from opportunities
    total_potential_monthly_savings  \* the total the modal shows

savingsVars == <<opportunities, sortedOpportunities, total_potential_monthly_savings>>

VARIABLES
    insights,    \* the insights prop of AIInsights, a JavaScript value
    aiData,      \* useState(null) : the payload of the AI advisor
    aiLoading,   \* useState(false) : an AI analysis is under way
    error        \* useState(null) : the AI advisor's error message is shown

insightVars == <<insights, aiData, aiLoading, error>>

VARIABLES
    data,          \* useState(null) : the dashboard data, or null
    dataLoading,   \* useState(true) : loading of useDashboardData
    dataError,     \* useState(null) : error of useDashboardData
    calls,         \* calls[c] : where call c of fetchAllData stands
    lastCall,      \* the step of fetchAllData taken last
    resultOfLast,  \* the data built by the call that was started last
    overlapped     \* a call was started while another was under way

dashboardVars == <<data, dataLoading, dataError, calls, lastCall, resultOfLast, overlapped>>

VARIABLES
    modals,         \* modals[i] : LiquidModal i is unmounted, closed or open
    bodyOverflow,   \* document.body.style.overflow
    htmlOverflow    \* document.documentElement.style.overflow

modalVars == <<modals, bodyOverflow, htmlOverflow>>

VARIABLES
    deletingId,            \* useState(null) : id under deletion, 0 for null
    deleteModalOpen,       \* useState(false)
    subscriptionToDelete,  \* useState(null) : id of the subscription, 0 for null
    attempts,              \* attempts[a] : where run a of confirmDelete stands
    lastStep               \* the step of the subscription list taken last

deleteVars == <<deletingId, deleteModalOpen, subscriptionToDelete, attempts, lastStep>>

vars == <<alertVars, calendarVars, savingsVars, insightVars, dashboardVars,
          modalVars, deleteVars>>

\* the variables of the components an alert store step leaves alone
outsideAlerts == <<calendarVars, savingsVars, insightVars, dashboardVars,
    modalVars, deleteVars>>

\* the variables of the components a calendar step leaves alone
outsideCalendar == <<alertVars, savingsVars, insightVars, dashboardVars,
    modalVars, deleteVars>>

\* the variables of the components a savings modal step leaves alone
outsideSavings == <<alertVars, calendarVars, insightVars, dashboardVars,
    modalVars, deleteVars>>

\* the variables of the components an insights panel step leaves alone
outsideInsights == <<alertVars, calendarVars, savingsVars, dashboardVars,
    modalVars, deleteVars>>

\* the variables of the components a dashboard data step leaves alone
outsideDashboard == <<alertVars, calendarVars, savingsVars, insightVars,
    modalVars, deleteVars>>

\* the variables of the components a modal step leaves alone
outsideModals == <<alertVars, calendarVars, savingsVars, insightVars, dashboardVars,
    deleteVars>>

\* the variables of the components a subscription list step leaves alone
outsideDelete == <<alertVars, calendarVars, savingsVars, insightVars, dashboardVars,
    modalVars>>

\* the LiquidModal instances of the page
Modals == {"subscription", "confirm", "calendar", "savings"}

\* no modal is mounted yet
ModalsIdle ==
    /\ modals = [i \in Modals |-> "unmounted"]
    /\ bodyOverflow = ""
    /\ htmlOverflow = ""

MaxAttempts == 2

\* the runs of confirmDelete that get past its guard
Attempts == 1..MaxAttempts

\* the subscription list before any click
DeleteIdle ==
    /\ deletingId = 0
    /\ deleteModalOpen = FALSE
    /\ subscriptionToDelete = 0
    /\ attempts = [a \in Attempts |-> [pc |-> "unused", sub |-> 0]]
    /\ lastStep = "none"

MaxRefetches == 2

\* the calls of fetchAllData: call 0 is the initial load, the others are
\* refetches
Calls == 0..MaxRefetches

\* const [data, setData] = useState(null)
NoData == [kind |-> "null"]

\* the dashboard hook before it is used
DashboardIdle ==
    /\ data = NoData
    /\ dataLoading = TRUE
    /\ dataError = "null"
    /\ calls = [c \in Calls |-> "unused"]
    /\ lastCall = [call |-> 0, step |-> "none"]
    /\ resultOfLast = NoData
    /\ overlapped = FALSE

\* JavaScript values, as far as the insights panel tells them apart
JsUndefined == [js |-> "undefined"]
JsNull == [js |-> "null"]
JsNumber == [js |-> "number"]
JsString(text) == [js |-> "string", value |-> text]
JsRecord(type, message) == [js |-> "object", type |-> type, message |-> message]
JsArray(items) == [js |-> "array", items |-> items]

\* the insights panel before anything is handed to it
InsightsIdle ==
    /\ insights = JsArray(<<>>)
    /\ aiData = JsNull
    /\ aiLoading = FALSE
    /\ error = FALSE


\* an alert as the store sees it
Alert == [alert_id : Ids, is_read : BOOLEAN]

\* the ids of a list of alerts
idsOf(as) == {as[i].alert_id : i \in 1..Len(as)}

\* the response bodies data.alerts of the alert generator: lists of at most
\* MaxLen alerts, each with either is_read value, with pairwise distinct
\* alert_id (the id is the React key of the rendered alert list)
FreshLists ==
    {s \in UNION {[1..n -> Alert] : n \in 0..MaxLen} :
        \A i, j \in 1..Len(s) : i # j => s[i].alert_id # s[j].alert_id}

(* ---------------------- the state updaters (pure) ---------------------- *)

\* new Set(prev.filter(a => a.is_read).map(a => a.alert_id))
readIds(prev) == {prev[i].alert_id : i \in {j \in 1..Len(prev) : prev[j].is_read}}

\* mutant: the response replaces the held list as received
refreshReplace(prev, fresh) == fresh

\* mutant: read state is or-ed with the incoming flag
refreshOrIncoming(prev, fresh) ==
    [i \in 1..Len(fresh) |->
        [fresh[i] EXCEPT !.is_read = fresh[i].is_read \/ fresh[i].alert_id \in readIds(prev)]]

\* mutant: previously held alerts missing from the response are kept in front
refreshKeepMissing(prev, fresh) ==
    SelectSeq(prev, LAMBDA a : a.alert_id \notin idsOf(fresh))
        \o [i \in 1..Len(fresh) |->
               [fresh[i] EXCEPT !.is_read = fresh[i].alert_id \in readIds(prev)]]

\* mutant: the merged list is appended to the held one
refreshAppend(prev, fresh) ==
    prev \o [i \in 1..Len(fresh) |->
                [fresh[i] EXCEPT !.is_read = fresh[i].alert_id \in readIds(prev)]]

\* the updater of fetchAlerts: data.alerts.map(a => ({...a, is_read: readIds.has(a.alert_id)}))
refreshUpdater(prev, fresh) ==
    [i \in 1..Len(fresh) |->
        [fresh[i] EXCEPT !.is_read = fresh[i].alert_id \in readIds(prev)]]

\* mutant: the comparison is lost and every alert is marked
markAsReadEvery(prev, alertId) ==
    [i \in 1..Len(prev) |-> [prev[i] EXCEPT !.is_read = TRUE]]

\* prev.map(a => a.alert_id === alertId ? { ...a, is_read: true } : a)
markAsReadUpdater(prev, alertId) ==
    [i \in 1..Len(prev) |->
        IF prev[i].alert_id = alertId THEN [prev[i] EXCEPT !.is_read = TRUE] ELSE prev[i]]

\* mutant: only the unread alerts are kept and marked
markAllReadUnreadOnly(prev) ==
    LET unread == SelectSeq(prev, LAMBDA a : ~a.is_read)
    IN  [i \in 1..Len(unread) |-> [unread[i] EXCEPT !.is_read = TRUE]]

\* prev.map(a => ({ ...a, is_read: true }))
markAllReadUpdater(prev) ==
    [i \in 1..Len(prev) |-> [prev[i] EXCEPT !.is_read = TRUE]]

\* mutant: dismissing hides the alert by marking it read
dismissByMarking(prev, alertId) ==
    [i \in 1..Len(prev) |->
        IF prev[i].alert_id = alertId THEN [prev[i] EXCEPT !.is_read = TRUE] ELSE prev[i]]

\* mutant: the filter predicate is inverted
dismissKeepOnly(prev, alertId) ==
    SelectSeq(prev, LAMBDA a : a.alert_id = alertId)

\* prev.filter(a => a.alert_id !== alertId)
dismissUpdater(prev, alertId) ==
    SelectSeq(prev, LAMBDA a : a.alert_id # alertId)

\* mutant: the memo has an empty dependency list and keeps its first value
memoStale(cached, as) == cached

\* useMemo(() => alerts.filter(a => !a.is_read).length, [alerts]): every
\* updater returns a new array, so the memo is recomputed on each update
memoUnreadCount(cached, as) == Len(SelectSeq(as, LAMBDA a : ~a.is_read))

\* mutant: the merge starts from the list captured when the call began, in
\* which the alerts marked read since then are still unread
mergeBaseSnapshot(f) ==
    [i \in 1..Len(alerts) |->
        IF alerts[i].alert_id \in markedSince[f]
        THEN [alerts[i] EXCEPT !.is_read = FALSE]
        ELSE alerts[i]]

\* setAlerts(prev => ...): the updater of call f receives the state held
\* when the response is merged
mergeBase(f) == alerts

(* --------------------------- history helpers --------------------------- *)

NoBefore == [seq |-> <<>>, dropped |-> {}, wasRead |-> {}, marked |-> {}]

\* a restored id is reported for one state only
settle(d) ==
    [id \in Ids |-> IF d[id] \in {"restoredRead", "restoredUnread"} THEN "no" ELSE d[id]]

\* the history of returns is kept only where a specification starts with
\* it switched on
ResolvedOff == [id \in Ids |-> "off"]

\* a returned id is reported for one state only
settleResolved(r) ==
    [id \in Ids |-> IF r[id] \in {"returnedRead", "returnedUnread"} THEN "no" ELSE r[id]]

\* the history after a refresh merged the response fresh into prev, giving
\* merged: an id held read and left out by the response is remembered; an
\* id remembered so that the response brings back is reported with the
\* flag it is held with
resolvedAfterRefresh(r, prev, fresh, merged) ==
    [id \in Ids |->
        IF r[id] = "off" THEN "off"
        ELSE IF id \in idsOf(fresh)
        THEN IF r[id] # "read" THEN "no"
             ELSE IF id \in readIds(merged) THEN "returnedRead" ELSE "returnedUnread"
        ELSE IF id \in readIds(prev) THEN "read"
        ELSE settleResolved(r)[id]]

(* ------------------------------ the store ------------------------------ *)

Init ==
    /\ alerts = <<>>
    /\ loading = TRUE
    /\ unreadCount = 0
    /\ pending = [f \in Fetches |-> FALSE]
    /\ last = [op |-> "init", id |-> 0, fresh |-> <<>>]
    /\ before = NoBefore
    /\ markedSince = [f \in Fetches |-> {}]
    /\ dismissed = [id \in Ids |-> "no"]
    /\ resolved = ResolvedOff
    /\ subscriptions = <<>>
    /\ currentMonth = [kind |-> "date", y |-> 2024, m |-> 1, d |-> 31]
    /\ selectedDate = currentMonth
    /\ now = currentMonth
    /\ opportunities = <<>>
    /\ sortedOpportunities = <<>>
    /\ total_potential_monthly_savings = 0
    /\ InsightsIdle
    /\ ModalsIdle
    /\ DeleteIdle
    /\ DashboardIdle

\* fetchAlerts() is called (on mount, or as refetch): the request goes out
FetchStart(f) ==
    /\ ~pending[f]
    /\ pending' = [pending EXCEPT ![f] = TRUE]
    /\ markedSince' = [markedSince EXCEPT ![f] = {}]
    /\ last' = [op |-> "fetchStart", id |-> 0, fresh |-> <<>>]
    /\ before' = NoBefore
    /\ dismissed' = settle(dismissed)
    /\ resolved' = settleResolved(resolved)
    /\ UNCHANGED <<alerts, loading, unreadCount>>
    /\ UNCHANGED outsideAlerts

\* the response of call f arrives with data.success and data.alerts = fresh
FetchSuccess(f, fresh) ==
    /\ pending[f]
    /\ alerts' = refreshUpdater(mergeBase(f), fresh)
    /\ unreadCount' = memoUnreadCount(unreadCount, alerts')
    /\ loading' = FALSE
    /\ pending' = [pending EXCEPT ![f] = FALSE]
    /\ last' = [op |-> "refresh", id |-> 0, fresh |-> fresh]
    /\ before' = [seq |-> <<>>,
                  dropped |-> idsOf(alerts) \ idsOf(fresh),
                  wasRead |-> readIds(alerts) \cap idsOf(fresh),
                  marked |-> markedSince[f] \cap idsOf(fresh)]
    /\ markedSince' = [g \in Fetches |->
                          IF g = f THEN {} ELSE markedSince[g] \cap idsOf(fresh)]
    /\ dismissed' = [id \in Ids |->
                        IF id \in idsOf(fresh)
                        THEN CASE dismissed[id] = "read" -> "restoredRead"
                               [] dismissed[id] = "unread" -> "restoredUnread"
                               [] OTHER -> "no"
                        ELSE settle(dismissed)[id]]
    /\ resolved' = resolvedAfterRefresh(resolved, alerts, fresh, alerts')
    /\ UNCHANGED outsideAlerts

\* mutant: an unsuccessful response empties the held list
FetchUnsuccessfulClears(f) ==
    /\ pending[f]
    /\ alerts' = <<>>
    /\ unreadCount' = memoUnreadCount(unreadCount, alerts')
    /\ loading' = FALSE
    /\ pending' = [pending EXCEPT ![f] = FALSE]
    /\ last' = [op |-> "fetchUnsuccessful", id |-> 0, fresh |-> <<>>]
    /\ before' = NoBefore
    /\ markedSince' = [markedSince EXCEPT ![f] = {}]
    /\ dismissed' = settle(dismissed)
    /\ resolved' = settleResolved(resolved)
    /\ UNCHANGED outsideAlerts

\* the response of call f arrives with data.success false
FetchUnsuccessful(f) ==
    /\ pending[f]
    /\ loading' = FALSE
    /\ pending' = [pending EXCEPT ![f] = FALSE]
    /\ last' = [op |-> "fetchUnsuccessful", id |-> 0, fresh |-> <<>>]
    /\ before' = NoBefore
    /\ markedSince' = [markedSince EXCEPT ![f] = {}]
    /\ dismissed' = settle(dismissed)
    /\ resolved' = settleResolved(resolved)
    /\ UNCHANGED <<alerts, unreadCount>>
    /\ UNCHANGED outsideAlerts

\* fetch or res.json() of call f throws: the catch block
FetchThrows(f) ==
    /\ pending[f]
    /\ loading' = FALSE
    /\ pending' = [pending EXCEPT ![f] = FALSE]
    /\ last' = [op |-> "fetchThrows", id |-> 0, fresh |-> <<>>]
    /\ before' = NoBefore
    /\ markedSince' = [markedSince EXCEPT ![f] = {}]
    /\ dismissed' = settle(dismissed)
    /\ resolved' = settleResolved(resolved)
    /\ UNCHANGED <<alerts, unreadCount>>
    /\ UNCHANGED outsideAlerts

markAsRead(alertId) ==
    /\ alerts' = markAsReadUpdater(alerts, alertId)
    /\ unreadCount' = memoUnreadCount(unreadCount, alerts')
    /\ last' = [op |-> "markAsRead", id |-> alertId, fresh |-> <<>>]
    /\ before' = [NoBefore EXCEPT !.seq = alerts]
    /\ markedSince' = [f \in Fetches |->
                          IF pending[f] /\ alertId \in idsOf(alerts)
                          THEN markedSince[f] \cup {alertId}
                          ELSE markedSince[f]]
    /\ dismissed' = settle(dismissed)
    /\ resolved' = settleResolved(resolved)
    /\ UNCHANGED <<loading, pending>>
    /\ UNCHANGED outsideAlerts

markAllRead ==
    /\ alerts' = markAllReadUpdater(alerts)
    /\ unreadCount' = memoUnreadCount(unreadCount, alerts')
    /\ last' = [op |-> "markAllRead", id |-> 0, fresh |-> <<>>]
    /\ before' = [NoBefore EXCEPT !.seq = alerts]
    /\ dismissed' = settle(dismissed)
    /\ resolved' = settleResolved(resolved)
    /\ UNCHANGED <<loading, pending, markedSince>>
    /\ UNCHANGED outsideAlerts

dismissAlert(alertId) ==
    /\ alerts' = dismissUpdater(alerts, alertId)
    /\ unreadCount' = memoUnreadCount(unreadCount, alerts')
    /\ last' = [op |-> "dismiss", id |-> alertId, fresh |-> <<>>]
    /\ before' = [NoBefore EXCEPT !.seq = alerts]
    /\ markedSince' = [f \in Fetches |-> markedSince[f] \ {alertId}]
    /\ dismissed' = [settle(dismissed) EXCEPT ![alertId] =
                        IF alertId \in readIds(alerts) THEN "read"
                        ELSE IF alertId \in idsOf(alerts) THEN "unread"
                        ELSE @]
    /\ resolved' = settleResolved(resolved)
    /\ UNCHANGED <<loading, pending>>
    /\ UNCHANGED outsideAlerts

Next ==
    \/ \E f \in Fetches : FetchStart(f)
    \/ \E f \in Fetches, fresh \in FreshLists : FetchSuccess(f, fresh)
    \/ \E f \in Fetches : FetchUnsuccessful(f)
    \/ \E f \in Fetches : FetchThrows(f)
    \/ \E id \in Ids : markAsRead(id)
    \/ markAllRead
    \/ \E id \in Ids : dismissAlert(id)

Spec == Init /\ [][Next]_vars

(* ------------------------- properties: alerts -------------------------- *)

\* the held alert with a given id, for lists with pairwise distinct ids
heldRead(id) == \E i \in 1..Len(alerts) : alerts[i].alert_id = id /\ alerts[i].is_read

heldUnread(id) == \E i \in 1..Len(alerts) : alerts[i].alert_id = id /\ ~alerts[i].is_read

noneRead(id) == \A i \in 1..Len(alerts) : alerts[i].alert_id = id => ~alerts[i].is_read

allRead(id) == \A i \in 1..Len(alerts) : alerts[i].alert_id = id => alerts[i].is_read

\* C1: read-state preservation. After a refresh, every alert of the fresh
\* list whose id was held with is_read = true before the refresh is held
\* with is_read = true, whatever is_read value the incoming alert carries.
C1_ReadStatePreserved ==
    last.op = "refresh" =>
        \A i \in 1..Len(last.fresh) :
            last.fresh[i].alert_id \in before.wasRead =>
                /\ heldRead(last.fresh[i].alert_id)
                /\ allRead(last.fresh[i].alert_id)

\* C1 witness: a read alert came back with is_read = false and is held read
C1_Witness ==
    /\ last.op = "refresh"
    /\ \E i \in 1..Len(last.fresh) :
          /\ last.fresh[i].alert_id \in before.wasRead
          /\ ~last.fresh[i].is_read
          /\ heldRead(last.fresh[i].alert_id)

C3_UnreadCountDerived ==
    unreadCount = Cardinality({i \in 1..Len(alerts) : alerts[i].is_read = FALSE})

\* C3 witness: a dismiss took the count from 2 to 1
C3_Witness ==
    /\ last.op = "dismiss"
    /\ Cardinality({i \in 1..Len(before.seq) : ~before.seq[i].is_read}) = 2
    /\ unreadCount = 1

\* C4: after a successful refresh the held alerts are the fresh alerts in
\* the fresh list's order (same length, same alert_id at every position),
\* and no id that was only in the previous state is held.
C4_RefreshReplacesSet ==
    last.op = "refresh" =>
        /\ Len(alerts) = Len(last.fresh)
        /\ \A i \in 1..Len(last.fresh) :
              i <= Len(alerts) => alerts[i].alert_id = last.fresh[i].alert_id
        /\ before.dropped \cap idsOf(alerts) = {}

\* C4 witness: a refresh dropped a previously held alert and holds the
\* alert of its response
C4_Witness ==
    /\ last.op = "refresh"
    /\ before.dropped # {}
    /\ Len(last.fresh) >= 1
    /\ idsOf(alerts) = idsOf(last.fresh)

\* C5 as stated (refuted): a fresh alert whose id does not match a
\* previously held read alert keeps its incoming is_read value.
C5_Original ==
    last.op = "refresh" =>
        \A i \in 1..Len(last.fresh) :
            (i <= Len(alerts) /\ last.fresh[i].alert_id \notin before.wasRead) =>
                alerts[i].is_read = last.fresh[i].is_read

\* C5 amended: after a refresh, is_read is true exactly for the fresh alerts
\* whose id matches a previously held read alert; a fresh alert without such
\* a match is held with is_read = false, whatever is_read value it carried.
C5_Amended ==
    last.op = "refresh" =>
        \A i \in 1..Len(last.fresh) :
            (i <= Len(alerts) /\ last.fresh[i].alert_id \notin before.wasRead) =>
                alerts[i].is_read = FALSE

\* C5 witness: an unmatched alert arrived with is_read = true, is held unread
C5_Witness ==
    /\ last.op = "refresh"
    /\ \E i \in 1..Len(last.fresh) :
          /\ last.fresh[i].alert_id \notin before.wasRead
          /\ last.fresh[i].is_read
          /\ heldUnread(last.fresh[i].alert_id)

\* C6: idempotence. In the state a refresh(X) produced, refresh(X) applied
\* once more gives the same held list and the same unreadCount.
C6_RefreshIdempotent ==
    last.op = "refresh" =>
        /\ refreshUpdater(alerts, last.fresh) = alerts
        /\ memoUnreadCount(unreadCount, refreshUpdater(alerts, last.fresh)) = unreadCount

\* C6 witness: the refresh kept one read flag against the incoming value
\* and holds an unread alert too
C6_Witness ==
    /\ last.op = "refresh"
    /\ Len(alerts) = 2
    /\ \E i, j \in 1..2 :
          /\ alerts[i].is_read /\ ~last.fresh[i].is_read
          /\ ~alerts[j].is_read /\ last.fresh[j].is_read

\* C7: markAsRead(id) keeps the ids and their order, sets is_read on the
\* alert with that id and leaves every other is_read as it was; for an id
\* that is not held the list is unchanged.
C7_MarkAsReadFrame ==
    last.op = "markAsRead" =>
        /\ Len(alerts) = Len(before.seq)
        /\ \A i \in 1..Len(before.seq) :
              i <= Len(alerts) =>
                  /\ alerts[i].alert_id = before.seq[i].alert_id
                  /\ alerts[i].is_read =
                        (before.seq[i].is_read \/ before.seq[i].alert_id = last.id)
        /\ (last.id \notin idsOf(before.seq) => alerts = before.seq)

\* C7 witness: an unread alert was marked while another one stayed unread
C7_Witness ==
    /\ last.op = "markAsRead"
    /\ \E i, j \in 1..Len(before.seq) :
          /\ before.seq[i].alert_id = last.id /\ ~before.seq[i].is_read
          /\ heldRead(last.id)
          /\ j # i /\ ~before.seq[j].is_read /\ heldUnread(before.seq[j].alert_id)

\* C8: after markAllRead every held alert has is_read = true, unreadCount
\* is 0, and the ids and their order are those held before the call.
C8_MarkAllRead ==
    last.op = "markAllRead" =>
        /\ Len(alerts) = Len(before.seq)
        /\ \A i \in 1..Len(before.seq) :
              i <= Len(alerts) => alerts[i].alert_id = before.seq[i].alert_id
        /\ \A i \in 1..Len(alerts) : alerts[i].is_read
        /\ unreadCount = 0

\* C8 witness: a read and an unread alert were held before the call
C8_Witness ==
    /\ last.op = "markAllRead"
    /\ Len(alerts) = 2
    /\ \E i, j \in 1..Len(before.seq) : before.seq[i].is_read /\ ~before.seq[j].is_read

\* the list s without its k-th element
without(s, k) == SubSeq(s, 1, k - 1) \o SubSeq(s, k + 1, Len(s))

\* C9: dismiss(id) removes the alert with that id and leaves the others as
\* they were (an id that is not held changes nothing), and a dismissed id
\* stays absent until a refresh whose fresh list contains it.
C9_DismissRemoves ==
    /\ last.op = "dismiss" =>
          /\ last.id \notin idsOf(alerts)
          /\ (last.id \notin idsOf(before.seq) => alerts = before.seq)
          /\ \A k \in 1..Len(before.seq) :
                before.seq[k].alert_id = last.id => alerts = without(before.seq, k)
    /\ \A id \in Ids : dismissed[id] \in {"read", "unread"} => id \notin idsOf(alerts)

\* C9 witness: a refresh without the dismissed id came in; another alert is held
C9_Witness ==
    /\ last.op = "refresh"
    /\ Len(alerts) >= 1
    /\ \E id \in Ids : dismissed[id] \in {"read", "unread"} /\ id \notin idsOf(last.fresh)

C26_FailedFetchKeepsAlerts ==
    [][last'.op \in {"fetchThrows", "fetchUnsuccessful"} => alerts' = alerts]_vars

\* C26 witness: a response with success = false has arrived while a read
\* and an unread alert are held
C26_Witness ==
    /\ last.op = "fetchUnsuccessful"
    /\ Len(alerts) = 2
    /\ alerts[1].is_read
    /\ ~alerts[2].is_read

(* -------------- the store, with the history of returns ----------------- *)

\* the response bodies whose alerts all carry the same incoming is_read
UniformFreshLists ==
    {s \in FreshLists : \A i, j \in 1..Len(s) : s[i].is_read = s[j].is_read}

InitReturn ==
    /\ alerts = <<>>
    /\ loading = TRUE
    /\ unreadCount = 0
    /\ pending = [f \in Fetches |-> FALSE]
    /\ last = [op |-> "init", id |-> 0, fresh |-> <<>>]
    /\ before = NoBefore
    /\ markedSince = [f \in Fetches |-> {}]
    /\ dismissed = [id \in Ids |-> "no"]
    /\ resolved = [id \in Ids |-> "no"]
    /\ subscriptions = <<>>
    /\ currentMonth = [kind |-> "date", y |-> 2024, m |-> 1, d |-> 31]
    /\ selectedDate = currentMonth
    /\ now = currentMonth
    /\ opportunities = <<>>
    /\ sortedOpportunities = <<>>
    /\ total_potential_monthly_savings = 0
    /\ InsightsIdle
    /\ ModalsIdle
    /\ DeleteIdle
    /\ DashboardIdle

NextReturn ==
    \/ \E f \in Fetches : FetchStart(f)
    \/ \E f \in Fetches, fresh \in UniformFreshLists : FetchSuccess(f, fresh)
    \/ \E f \in Fetches : FetchUnsuccessful(f)
    \/ \E f \in Fetches : FetchThrows(f)
    \/ \E id \in Ids : markAsRead(id)
    \/ markAllRead
    \/ \E id \in Ids : dismissAlert(id)

SpecReturn == InitReturn /\ [][NextReturn]_vars

\* C27: an alert that was held read when a refresh left it out, and that a
\* later refresh brings back, is then held with is_read = false.
C27_ReturnedAlertIsUnread ==
    \A id \in Ids : resolved[id] # "returnedRead"

\* C27 witness: a refresh has just brought back an alert that an earlier
\* refresh had left out while it was read; it is held unread
C27_Witness ==
    \E id \in Ids :
        /\ resolved[id] = "returnedUnread"
        /\ last.op = "refresh"
        /\ \E i \in 1..Len(alerts) : alerts[i].alert_id = id /\ ~alerts[i].is_read

(***************************************************************************)
(* Part 2: the payment calendar (PaymentCalendar, unnamed/part_012).       *)
(*                                                                         *)
(* A Date object is a record [kind, y, m, d]: a calendar day in local      *)
(* time (m is 1..12), the Invalid Date, or null. A billing date string is  *)
(* a number: 0 is a missing value, -1 a string that is no date, and        *)
(* yyyymmdd the date string of that day, read in local time. A             *)
(* subscription carries id, billing_cycle, next_billing_date, active and   *)
(* cost.                                                                   *)
(***************************************************************************)

\* longest subscription list handed to the calendar
MaxSubs == 2

\* how many months the view is moved away from the month of the clock
MaxNav == 1

DateOf(y, m, d) == [kind |-> "date", y |-> y, m |-> m, d |-> d]

InvalidDate == [kind |-> "invalid", y |-> 0, m |-> 0, d |-> 0]

NullDate == [kind |-> "null", y |-> 0, m |-> 0, d |-> 0]

isLeapYear(y) == (y % 4 = 0 /\ y % 100 # 0) \/ y % 400 = 0

getDaysInMonth(y, m) ==
    IF m = 2 THEN (IF isLeapYear(y) THEN 29 ELSE 28)
    ELSE IF m \in {4, 6, 9, 11} THEN 30 ELSE 31

\* new Date(string): the day of a date string, Invalid Date otherwise
parseBillingDate(str) ==
    IF str > 0 THEN DateOf(str \div 10000, (str \div 100) % 100, str % 100) ELSE InvalidDate

\* format(date, 'yyyy-MM-dd'), read as a number
formatKey(date) == date.y * 10000 + date.m * 100 + date.d

\* new Date(year, monthIndex, day): a day past the end of the month rolls
\* over into the next month, a NaN day gives the Invalid Date
newDate(y, m, d) ==
    IF d = 0 THEN InvalidDate
    ELSE IF d <= getDaysInMonth(y, m) THEN DateOf(y, m, d)
    ELSE IF m = 12 THEN DateOf(y + 1, 1, d - getDaysInMonth(y, m))
    ELSE DateOf(y, m + 1, d - getDaysInMonth(y, m))

\* date.getDate(), with 0 standing for NaN
getDate(date) == IF date.kind = "date" THEN date.d ELSE 0

\* mutant: the day of the viewed date is taken for the length of its month
endOfMonthDayOfDate(date) == date.d

\* endOfMonth(currentMonth).getDate()
endOfMonthDay(date) == getDaysInMonth(date.y, date.m)

\* mutant: the day of the anchor is used unclamped
actualDayUnclamped(targetDay, daysInMonth) == targetDay

\* Math.min(targetDay, daysInMonth); NaN if targetDay is NaN
actualDay(targetDay, daysInMonth) ==
    IF targetDay = 0 THEN 0
    ELSE IF targetDay < daysInMonth THEN targetDay ELSE daysInMonth

\* isSameMonth of date-fns: same year and same month; false for an Invalid Date
isSameMonth(a, b) == a.kind = "date" /\ b.kind = "date" /\ a.y = b.y /\ a.m = b.m

\* addMonths of date-fns: the day is clamped to the length of the target month
addMonths(date, n) ==
    LET idx == date.y * 12 + (date.m - 1) + n
        y   == idx \div 12
        m   == (idx % 12) + 1
        dim == getDaysInMonth(y, m)
    IN  DateOf(y, m, IF date.d < dim THEN date.d ELSE dim)

subMonths(date, n) == addMonths(date, 0 - n)

\* mutant: the month test of the one-off branch is lost
oneOffPayDateAlways(dateObj, month) == dateObj

\* the last two branches: any cycle other than 'monthly'
\*   if (isSameMonth(dateObj, currentMonth) && same full year) payDate = dateObj
oneOffPayDate(dateObj, month) ==
    IF isSameMonth(dateObj, month) /\ dateObj.y = month.y THEN dateObj ELSE NullDate

\* the body of the forEach up to "if (payDate)": the pay date of one
\* subscription in the viewed month, null when it has none
payDateOf(sub, month) ==
    IF sub.next_billing_date = 0 THEN NullDate
    ELSE LET dateObj == parseBillingDate(sub.next_billing_date)
         IN  IF sub.billing_cycle = "monthly"
             THEN newDate(month.y, month.m,
                          actualDay(getDate(dateObj), endOfMonthDay(month)))
             ELSE oneOffPayDate(dateObj, month)

\* "if (payDate)" holds for every Date object, the Invalid Date too, and
\* format throws a RangeError on the Invalid Date
projectionThrows(subs, month) ==
    \E i \in 1..Len(subs) : payDateOf(subs[i], month).kind = "invalid"

\* map[dateKey]: the entries pushed under one key, in list order
entriesAt(subs, month, key) ==
    LET due == SelectSeq(subs, LAMBDA sub :
                   /\ payDateOf(sub, month).kind = "date"
                   /\ formatKey(payDateOf(sub, month)) = key)
    IN  [i \in 1..Len(due) |-> [sub |-> due[i], actualPayDate |-> payDateOf(due[i], month)]]

\* the useMemo paymentsByDate: threw, or the map from date key to entries
paymentsByDateOf(subs, month) ==
    IF projectionThrows(subs, month)
    THEN [threw |-> TRUE, map |-> <<>>]
    ELSE [threw |-> FALSE,
          map |-> [key \in {formatKey(payDateOf(subs[i], month)) :
                               i \in {j \in 1..Len(subs) :
                                          payDateOf(subs[j], month).kind = "date"}}
                      |-> entriesAt(subs, month, key)]]

paymentsByDate == paymentsByDateOf(subscriptions, currentMonth)

\* the useMemo selectedDatePayments: paymentsByDate[dateKey] || []
selectedDatePaymentsOf(subs, month, selected) ==
    LET p == paymentsByDateOf(subs, month)
    IN  IF formatKey(selected) \in DOMAIN p.map THEN p.map[formatKey(selected)] ELSE <<>>

selectedDatePayments == selectedDatePaymentsOf(subscriptions, currentMonth, selectedDate)

RECURSIVE sumCosts(_)
\* selectedDatePayments.reduce((acc, s) => acc + s.cost, 0)
sumCosts(entries) ==
    IF entries = <<>> THEN 0
    ELSE entries[1].sub.cost + sumCosts(Tail(entries))

\* the day count from 0001-01-01 (day 1, a Monday) and getDay(), Sunday = 0
dayNumber(date) ==
    LET y == date.y - 1
        RECURSIVE daysBefore(_)
        daysBefore(m) ==
            IF m = 1 THEN 0 ELSE daysBefore(m - 1) + getDaysInMonth(date.y, m - 1)
    IN  365 * y + (y \div 4) - (y \div 100) + (y \div 400) + daysBefore(date.m) + date.d

getDay(date) == dayNumber(date) % 7

\* the useMemo days: eachDayOfInterval from startOfWeek(startOfMonth) to
\* endOfWeek(endOfMonth), the cells of the grid
days(month) ==
    LET first == DateOf(month.y, month.m, 1)
        lastD == DateOf(month.y, month.m, getDaysInMonth(month.y, month.m))
        prev  == addMonths(first, -1)
        next  == addMonths(first, 1)
        lead  == getDay(first)
        trail == 6 - getDay(lastD)
    IN  {DateOf(prev.y, prev.m, d) :
             d \in (getDaysInMonth(prev.y, prev.m) - lead + 1)..getDaysInMonth(prev.y, prev.m)}
        \cup {DateOf(month.y, month.m, d) : d \in 1..lastD.d}
        \cup {DateOf(next.y, next.m, d) : d \in 1..trail}

(* ----------------------- inputs of the calendar ------------------------ *)

\* the clock readings considered
Clock == {DateOf(2024, 3, 31), DateOf(2025, 1, 15)}

BillingCycles == {"monthly", "annual", "weekly", "active", "custom"}

\* billing date strings: missing, not a date, and two days
BillingDates == {0, -1, 20240331, 20240229}

\* the lists of at most MaxSubs subscriptions drawn from a set of records;
\* the i-th subscription of a list has id i
SubscriptionLists(records) ==
    UNION {{[i \in 1..n |-> [id |-> i,
                             billing_cycle |-> f[i].billing_cycle,
                             next_billing_date |-> f[i].next_billing_date,
                             active |-> f[i].active,
                             cost |-> f[i].cost]] : f \in [1..n -> records]} : n \in 0..MaxSubs}

\* every cycle with every billing date string, and an inactive subscription
ProjectionSubs ==
    [billing_cycle : BillingCycles, next_billing_date : BillingDates,
     active : {TRUE}, cost : {10}]
    \cup [billing_cycle : {"monthly"}, next_billing_date : {20240331},
          active : {FALSE}, cost : {10}]

\* well-formed subscriptions of two costs
SelectionSubs ==
    [billing_cycle : {"monthly", "custom"}, next_billing_date : {20240331},
     active : {TRUE}, cost : {5, 10}]

monthIndex(date) == date.y * 12 + date.m - 1

(* ------------------------- calendar operations ------------------------- *)

\* the component is mounted with a subscription list; both states are new Date()
CalendarMounted(lists) ==
    /\ subscriptions \in lists
    /\ now \in Clock
    /\ currentMonth = now
    /\ selectedDate = now
    /\ alerts = <<>>
    /\ loading = TRUE
    /\ unreadCount = 0
    /\ pending = [f \in Fetches |-> FALSE]
    /\ last = [op |-> "init", id |-> 0, fresh |-> <<>>]
    /\ before = NoBefore
    /\ markedSince = [f \in Fetches |-> {}]
    /\ dismissed = [id \in Ids |-> "no"]
    /\ resolved = ResolvedOff
    /\ opportunities = <<>>
    /\ sortedOpportunities = <<>>
    /\ total_potential_monthly_savings = 0
    /\ InsightsIdle
    /\ ModalsIdle
    /\ DeleteIdle
    /\ DashboardIdle

\* A projection that throws takes the component down on its first render, so
\* every handler below needs a projection that did not throw.

\* const nextMonth = () => setCurrentMonth(addMonths(currentMonth, 1))
nextMonth ==
    /\ ~paymentsByDate.threw
    /\ monthIndex(currentMonth) - monthIndex(now) < MaxNav
    /\ currentMonth' = addMonths(currentMonth, 1)
    /\ UNCHANGED <<subscriptions, selectedDate, now>>
    /\ UNCHANGED outsideCalendar

\* const prevMonth = () => setCurrentMonth(subMonths(currentMonth, 1))
prevMonth ==
    /\ ~paymentsByDate.threw
    /\ monthIndex(now) - monthIndex(currentMonth) < MaxNav
    /\ currentMonth' = subMonths(currentMonth, 1)
    /\ UNCHANGED <<subscriptions, selectedDate, now>>
    /\ UNCHANGED outsideCalendar

\* the Today button: setCurrentMonth(now); setSelectedDate(now)
goToday ==
    /\ ~paymentsByDate.threw
    /\ currentMonth' = now
    /\ selectedDate' = now
    /\ UNCHANGED <<subscriptions, now>>
    /\ UNCHANGED outsideCalendar

\* a click on a cell of the grid: setSelectedDate(day)
selectDay(day) ==
    /\ selectedDate' = day
    /\ UNCHANGED <<subscriptions, currentMonth, now>>
    /\ UNCHANGED outsideCalendar

\* the projection under month navigation, for every kind of subscription
InitProjection == CalendarMounted(SubscriptionLists(ProjectionSubs))

NextProjection == nextMonth \/ prevMonth \/ goToday

SpecProjection == InitProjection /\ [][NextProjection]_vars

\* the calendar with day selection, for well-formed subscriptions
InitCalendar == CalendarMounted(SubscriptionLists(SelectionSubs))

NextCalendar ==
    \/ nextMonth
    \/ prevMonth
    \/ goToday
    \/ ~paymentsByDate.threw /\ \E day \in days(currentMonth) : selectDay(day)

SpecCalendar == InitCalendar /\ [][NextCalendar]_vars

(* ------------------------ properties: calendar ------------------------- *)

\* the date keys under which subscription i is listed
keysOf(i) ==
    {key \in DOMAIN paymentsByDate.map :
        \E j \in 1..Len(paymentsByDate.map[key]) : paymentsByDate.map[key][j].sub.id = i}

\* subscription i has a billing date string that is a date
anchored(i) == subscriptions[i].next_billing_date > 0

anchorOf(i) ==
    LET str == subscriptions[i].next_billing_date
    IN  [y |-> str \div 10000, m |-> (str \div 100) % 100, d |-> str % 100]

viewedKey(d) == currentMonth.y * 10000 + currentMonth.m * 100 + d

viewedLength == getDaysInMonth(currentMonth.y, currentMonth.m)

navigated == monthIndex(currentMonth) # monthIndex(now)

\* C11: every date key of the projection lies between the first and the
\* last day of the viewed month, in every month the navigation reaches.
C11_KeysInViewedMonth ==
    ~paymentsByDate.threw =>
        \A key \in DOMAIN paymentsByDate.map :
            viewedKey(1) <= key /\ key <= viewedKey(viewedLength)

\* C11 witness: after a navigation, a monthly subscription with anchor day
\* 31 is listed in a shorter month
C11_Witness ==
    /\ navigated
    /\ ~paymentsByDate.threw
    /\ \E i \in 1..Len(subscriptions) :
          /\ subscriptions[i].billing_cycle = "monthly"
          /\ anchored(i) /\ anchorOf(i).d > viewedLength
          /\ keysOf(i) # {}

\* C12: a monthly subscription with anchor day d is listed once in the
\* viewed month, on day d, or on the last day if the month has fewer days.
C12_MonthlyClamp ==
    ~paymentsByDate.threw =>
        \A i \in 1..Len(subscriptions) :
            (subscriptions[i].billing_cycle = "monthly" /\ anchored(i)) =>
                keysOf(i) = {viewedKey(IF viewedLength < anchorOf(i).d
                                       THEN viewedLength ELSE anchorOf(i).d)}

\* C12 witness: anchor day 31, viewed in a month of 30 days, listed on the 30th
C12_Witness ==
    /\ ~paymentsByDate.threw
    /\ viewedLength = 30
    /\ \E i \in 1..Len(subscriptions) :
          /\ subscriptions[i].billing_cycle = "monthly"
          /\ anchored(i) /\ anchorOf(i).d = 31
          /\ keysOf(i) = {viewedKey(30)}

\* C13 (refuted by the code): a weekly subscription is listed on every day
\* anchor + 7k, k >= 0, of the viewed month.
C13_WeeklyEveryOccurrence ==
    ~paymentsByDate.threw =>
        \A i \in 1..Len(subscriptions) :
            (subscriptions[i].billing_cycle = "weekly" /\ anchored(i)) =>
                \A d \in 1..viewedLength :
                    LET gap == dayNumber(DateOf(currentMonth.y, currentMonth.m, d))
                                   - dayNumber(anchorOf(i))
                    IN  (gap >= 0 /\ gap % 7 = 0) => viewedKey(d) \in keysOf(i)

\* C14 (refuted by the code): an annual subscription is listed in the
\* anchor's month of every year from the anchor's year on, on the anchor's
\* day (the last day of the month when the month is shorter).
C14_AnnualEveryYear ==
    ~paymentsByDate.threw =>
        \A i \in 1..Len(subscriptions) :
            (/\ subscriptions[i].billing_cycle = "annual" /\ anchored(i)
             /\ currentMonth.m = anchorOf(i).m /\ currentMonth.y >= anchorOf(i).y) =>
                viewedKey(IF viewedLength < anchorOf(i).d
                          THEN viewedLength ELSE anchorOf(i).d) \in keysOf(i)

\* C15: a subscription whose cycle is none of monthly, annual, weekly is
\* listed on its anchor date when that date is in the viewed month (same
\* month, same year), and nowhere otherwise.
C15_UnrecognizedOneOff ==
    ~paymentsByDate.threw =>
        \A i \in 1..Len(subscriptions) :
            (subscriptions[i].billing_cycle \notin {"monthly", "annual", "weekly"}
             /\ anchored(i)) =>
                keysOf(i) = IF anchorOf(i).y = currentMonth.y /\ anchorOf(i).m = currentMonth.m
                            THEN {subscriptions[i].next_billing_date}
                            ELSE {}

\* C15 witness: a 'custom' subscription is listed on its anchor date, and
\* another one of the list, anchored in another month, is not listed
C15_Witness ==
    /\ ~paymentsByDate.threw
    /\ \E i, j \in 1..Len(subscriptions) :
          /\ subscriptions[i].billing_cycle = "custom" /\ anchored(i)
          /\ keysOf(i) = {subscriptions[i].next_billing_date}
          /\ subscriptions[j].billing_cycle = "active" /\ anchored(j)
          /\ keysOf(j) = {}

\* C16 (refuted by the code): every subscription listed has active = true.
C16_OnlyActiveListed ==
    ~paymentsByDate.threw =>
        \A key \in DOMAIN paymentsByDate.map :
            \A j \in 1..Len(paymentsByDate.map[key]) : paymentsByDate.map[key][j].sub.active

\* the subscriptions whose billing date string is a date
wellFormed(subs) == SelectSeq(subs, LAMBDA sub : sub.next_billing_date > 0)

\* C17 (refuted by the code): the projection does not throw, and it is the
\* projection of the list without the subscriptions whose date is missing
\* or malformed.
C17_MalformedSkipped ==
    /\ ~paymentsByDate.threw
    /\ paymentsByDate.map = paymentsByDateOf(wellFormed(subscriptions), currentMonth).map

\* C18 (refuted by the code): a monthly subscription is not listed in a
\* viewed month that ends before its anchor date.
C18_MonthlyNotBeforeAnchor ==
    ~paymentsByDate.threw =>
        \A i \in 1..Len(subscriptions) :
            (/\ subscriptions[i].billing_cycle = "monthly" /\ anchored(i)
             /\ monthIndex(currentMonth) < monthIndex(anchorOf(i))) =>
                keysOf(i) = {}

\* the subscriptions due on a day: that day's entries in the projection of
\* the day's own month
dueOn(date) ==
    LET p == paymentsByDateOf(subscriptions, date)
    IN  IF formatKey(date) \in DOMAIN p.map THEN p.map[formatKey(date)] ELSE <<>>

\* C19 (refuted by the code): the payments shown for the selected date are
\* the subscriptions due on that date, and the Total is the sum of their
\* costs, whatever month is viewed.
C19_SelectedDateShowsDue ==
    ~paymentsByDate.threw =>
        /\ selectedDatePayments = dueOn(selectedDate)
        /\ sumCosts(selectedDatePayments) = sumCosts(dueOn(selectedDate))

(***************************************************************************)
(* Part 3: the savings modal (SavingsModal.jsx).                           *)
(*                                                                         *)
(* An opportunity is a record with an id, its position in the list the     *)
(* modal receives, and potential_monthly_savings, a whole number; the      *)
(* field is absent when the value is missing. The savingsData prop is      *)
(* null or a record with an opportunities list.                            *)
(***************************************************************************)

MaxOpps == 3

\* the values of potential_monthly_savings
SavingsValues == {0, 5, 10, 15}

\* a value of the field or none: a sequence of at most one value
SavingsChoices == {<<>>} \cup {<<v>> : v \in SavingsValues}

\* the i-th opportunity of a list
Opportunity(i, choice) ==
    IF choice = <<>>
    THEN [id |-> i]
    ELSE [id |-> i, potential_monthly_savings |-> choice[1]]

OpportunityLists ==
    UNION {{[i \in 1..n |-> Opportunity(i, c[i])] : c \in [1..n -> SavingsChoices]} :
               n \in 0..MaxOpps}

\* (o.potential_monthly_savings || 0)
savingsOrZero(o) ==
    IF "potential_monthly_savings" \in DOMAIN o
    THEN o.potential_monthly_savings
    ELSE 0

\* The payload is built by the analytics service, which is not part of the
\* sources at hand; its total is the sum over the list it returns, an
\* opportunity without a value adding nothing.
RECURSIVE detectTotal(_)
detectTotal(list) ==
    IF list = <<>> THEN 0 ELSE savingsOrZero(Head(list)) + detectTotal(Tail(list))

\* the savingsData prop: null, or the payload with its opportunities and
\* their total
SavingsData ==
    {[kind |-> "null"]} \cup
    {[kind |-> "data", opportunities |-> l,
      total_potential_monthly_savings |-> detectTotal(l)] : l \in OpportunityLists}

\* const { total_potential_monthly_savings = 0 } = savingsData || {}
totalOf(savingsData) ==
    IF savingsData.kind = "null" THEN 0 ELSE savingsData.total_potential_monthly_savings

\* const { opportunities = [] } = savingsData || {}
opportunitiesOf(savingsData) ==
    IF savingsData.kind = "null" THEN <<>> ELSE savingsData.opportunities

\* mutant: lowest savings first
compareFnAscending(a, b) == savingsOrZero(a) - savingsOrZero(b)

\* (a, b) => (b.potential_monthly_savings || 0) - (a.potential_monthly_savings || 0)
compareFn(a, b) == savingsOrZero(b) - savingsOrZero(a)

\* Array.prototype.sort is stable: an element goes behind every element that
\* the comparator does not put after it.
RECURSIVE insertSorted(_, _)
insertSorted(sorted, o) ==
    IF sorted = <<>>
    THEN <<o>>
    ELSE IF compareFn(Head(sorted), o) <= 0
         THEN <<Head(sorted)>> \o insertSorted(Tail(sorted), o)
         ELSE <<o>> \o sorted

\* mutant: only the two highest opportunities are kept
sortedTopTwo(list) ==
    LET RECURSIVE whole(_)
        whole(l) == IF l = <<>> THEN <<>>
                    ELSE insertSorted(whole(SubSeq(l, 1, Len(l) - 1)), l[Len(l)])
    IN  SubSeq(whole(list), 1, IF Len(list) < 2 THEN Len(list) ELSE 2)

\* [...opportunities].sort(compareFn)
RECURSIVE sortedOpportunitiesOf(_)
sortedOpportunitiesOf(list) ==
    IF list = <<>>
    THEN <<>>
    ELSE insertSorted(sortedOpportunitiesOf(SubSeq(list, 1, Len(list) - 1)),
                      list[Len(list)])

\* the modal is rendered with a savingsData prop; useMemo recomputes the
\* sorted list with it
render(savingsData) ==
    /\ opportunities' = opportunitiesOf(savingsData)
    /\ sortedOpportunities' = sortedOpportunitiesOf(opportunities')
    /\ total_potential_monthly_savings' = totalOf(savingsData)
    /\ UNCHANGED outsideSavings

InitSavings ==
    /\ opportunities = <<>>
    /\ sortedOpportunities = <<>>
    /\ total_potential_monthly_savings = 0
    /\ InsightsIdle
    /\ ModalsIdle
    /\ DeleteIdle
    /\ DashboardIdle
    /\ subscriptions = <<>>
    /\ now = DateOf(2024, 1, 31)
    /\ currentMonth = now
    /\ selectedDate = now
    /\ alerts = <<>>
    /\ loading = TRUE
    /\ unreadCount = 0
    /\ pending = [f \in Fetches |-> FALSE]
    /\ last = [op |-> "init", id |-> 0, fresh |-> <<>>]
    /\ before = NoBefore
    /\ markedSince = [f \in Fetches |-> {}]
    /\ dismissed = [id \in Ids |-> "no"]
    /\ resolved = ResolvedOff

NextSavings == \E savingsData \in SavingsData : render(savingsData)

SpecSavings == InitSavings /\ [][NextSavings]_vars

(* ------------------------ properties: savings -------------------------- *)

\* the savings an opportunity counts for: its value, 0 when it has none
countedSavings(o) ==
    IF "potential_monthly_savings" \in DOMAIN o THEN o.potential_monthly_savings ELSE 0

\* the one-to-one maps of 1..n onto itself
Permutations(n) ==
    {p \in [1..n -> 1..n] : \A i, j \in 1..n : p[i] = p[j] => i = j}

\* C20: the displayed list is ordered non-increasing by
\* potential_monthly_savings, a missing value counting as 0; it is a
\* permutation of the list received; and opportunities with equal savings
\* keep the order they were received in.
C20_SortedStablePermutation ==
    LET shown == sortedOpportunities
        n == Len(shown)
    IN  /\ \A i \in 1..(n - 1) : countedSavings(shown[i]) >= countedSavings(shown[i + 1])
        /\ n = Len(opportunities)
        /\ \E p \in Permutations(n) : \A i \in 1..n : shown[i] = opportunities[p[i]]
        /\ \A i, j \in 1..n :
               (i < j /\ countedSavings(shown[i]) = countedSavings(shown[j])) =>
                   shown[i].id < shown[j].id

\* C20 witness: a list whose highest savings come last and whose first two
\* opportunities tie, one of them without a value, is shown with the
\* highest first and the tied pair in the order received
C20_Witness ==
    /\ Len(opportunities) = 3
    /\ "potential_monthly_savings" \notin DOMAIN opportunities[1]
    /\ countedSavings(opportunities[2]) = 0
    /\ countedSavings(opportunities[3]) > 0
    /\ sortedOpportunities = <<opportunities[3], opportunities[1], opportunities[2]>>

\* the sum of the savings of the opportunities of a list
RECURSIVE sumSavings(_)
sumSavings(list) ==
    IF list = <<>> THEN 0 ELSE countedSavings(Head(list)) + sumSavings(Tail(list))

MaxInsights == 2

InsightElements ==
    {JsString("a"), JsString("b"), JsRecord("warning", JsString("b")), JsNull}

InsightLists == UNION {[1..n -> InsightElements] : n \in 0..MaxInsights}

\* what the analytics service or the AI advisor may hand over as insights
InsightSources ==
    {JsArray(l) : l \in InsightLists} \cup {JsNull, JsUndefined, JsString("ab"), JsNumber}

\* the payload of POST /ai/analyze
AiPayload(source) == [js |-> "object", insights |-> source]

\* insights: insightsData.insights || [] : what the dashboard keeps of a
\* fetch and hands to the panel
dashboardInsights(fetched) ==
    IF fetched \in {JsNull, JsUndefined} THEN JsArray(<<>>) ELSE fetched

\* const AIInsights = ({ insights = [] }) : the default is taken for undefined
insightsProp(value) == IF value = JsUndefined THEN JsArray(<<>>) ELSE value

\* an outcome of evaluating an expression: it threw, or it has a value
Thrown == [threw |-> TRUE, value |-> JsUndefined]
Returned(value) == [threw |-> FALSE, value |-> value]

\* aiData?.insights?.map(text => ({ type: 'tip', message: text })) || insights
displayInsightsOf(prop, payload) ==
    LET aiInsights == IF payload = JsNull THEN JsUndefined ELSE payload.insights
    IN  IF aiInsights \in {JsNull, JsUndefined}
        THEN Returned(insightsProp(prop))
        ELSE IF aiInsights.js = "array"
             THEN Returned(JsArray([i \in 1..Len(aiInsights.items) |->
                                        JsRecord("tip", aiInsights.items[i])]))
             ELSE Thrown   \* .map is not a function

\* const isObj = typeof insight === 'object';
\* const msg = isObj ? insight.message : insight;
\* const type = isObj ? insight.type : 'tip';
itemOf(insight) ==
    IF insight.js = "object"
    THEN [type |-> insight.type, message |-> insight.message]
    ELSE [type |-> "tip", message |-> insight]

\* rendering one element throws: typeof null is 'object' and reading
\* null.message is a TypeError; a message that is an object is no valid
\* React child
itemThrows(insight) ==
    \/ insight.js = "null"
    \/ insight.js = "object" /\ insight.message.js = "object"

\* displayInsights.length > 0 ? displayInsights.map(...) : (no insights)
renderList(display) ==
    IF display.js \in {"null", "undefined"}
    THEN [threw |-> TRUE, items |-> <<>>]     \* .length of null
    ELSE IF display.js = "number"
    THEN [threw |-> FALSE, items |-> <<>>]    \* .length is undefined
    ELSE IF display.js = "string"
    THEN [threw |-> display.value # "", items |-> <<>>]   \* .map is not a function
    ELSE IF \E i \in 1..Len(display.items) : itemThrows(display.items[i])
    THEN [threw |-> TRUE, items |-> <<>>]
    ELSE [threw |-> FALSE,
          items |-> [i \in 1..Len(display.items) |-> itemOf(display.items[i])]]

\* one render of the panel: the list is left out while the advisor is loading
panelOf(prop, payload, busy) ==
    LET display == displayInsightsOf(prop, payload)
    IN  IF display.threw THEN [threw |-> TRUE, items |-> <<>>]
        ELSE IF busy THEN [threw |-> FALSE, items |-> <<>>]
        ELSE renderList(display.value)

panel == panelOf(insights, aiData, aiLoading)

\* A render that throws takes the panel down, so every step below needs a
\* panel that rendered.

\* the dashboard hands the panel the insights of a fetch
receiveInsights(source) ==
    /\ ~panel.threw
    /\ insights' = dashboardInsights(source)
    /\ UNCHANGED <<aiData, aiLoading, error>>
    /\ UNCHANGED outsideInsights

\* fetchAIInsights, up to the request: setAiLoading(true); setError(null)
fetchAIInsights ==
    /\ ~panel.threw
    /\ ~aiLoading
    /\ aiLoading' = TRUE
    /\ error' = FALSE
    /\ UNCHANGED <<insights, aiData>>
    /\ UNCHANGED outsideInsights

\* the response is ok: setAiData(data), then setAiLoading(false)
aiResponds(source) ==
    /\ ~panel.threw
    /\ aiLoading
    /\ aiData' = AiPayload(source)
    /\ aiLoading' = FALSE
    /\ UNCHANGED <<insights, error>>
    /\ UNCHANGED outsideInsights

\* the request throws or the response is not ok: setError(...), then
\* setAiLoading(false)
aiFails ==
    /\ ~panel.threw
    /\ aiLoading
    /\ error' = TRUE
    /\ aiLoading' = FALSE
    /\ UNCHANGED <<insights, aiData>>
    /\ UNCHANGED outsideInsights

\* Back to Default Insights: setAiData(null); setError(null)
resetInsights ==
    /\ ~panel.threw
    /\ aiData # JsNull
    /\ aiData' = JsNull
    /\ error' = FALSE
    /\ UNCHANGED <<insights, aiLoading>>
    /\ UNCHANGED outsideInsights

InitInsights ==
    /\ InsightsIdle
    /\ ModalsIdle
    /\ DeleteIdle
    /\ DashboardIdle
    /\ opportunities = <<>>
    /\ sortedOpportunities = <<>>
    /\ total_potential_monthly_savings = 0
    /\ subscriptions = <<>>
    /\ now = DateOf(2024, 1, 31)
    /\ currentMonth = now
    /\ selectedDate = now
    /\ alerts = <<>>
    /\ loading = TRUE
    /\ unreadCount = 0
    /\ pending = [f \in Fetches |-> FALSE]
    /\ last = [op |-> "init", id |-> 0, fresh |-> <<>>]
    /\ before = NoBefore
    /\ markedSince = [f \in Fetches |-> {}]
    /\ dismissed = [id \in Ids |-> "no"]
    /\ resolved = ResolvedOff

NextInsights ==
    \/ \E source \in InsightSources : receiveInsights(source)
    \/ fetchAIInsights
    \/ \E source \in InsightSources : aiResponds(source)
    \/ aiFails
    \/ resetInsights

SpecInsights == InitInsights /\ [][NextInsights]_vars

(* ------------------------ properties: insights ------------------------- *)

\* the source the panel normalizes: the advisor's insights once it has
\* supplied some, the insights prop otherwise
chosenSource ==
    IF aiData # JsNull /\ aiData.insights \notin {JsNull, JsUndefined}
    THEN aiData.insights
    ELSE insights

\* a list of plain strings and of records {type, message}
wellFormedSource(source) ==
    /\ source.js = "array"
    /\ \A i \in 1..Len(source.items) : source.items[i].js \in {"string", "object"}

\* the item an element is to become
expectedItem(element) ==
    IF element.js = "string"
    THEN [type |-> "tip", message |-> element]
    ELSE [type |-> element.type, message |-> element.message]

\* C22 (refuted by the code): the items shown are the element-wise map of a
\* well-formed source: same length and order, a string becomes a tip with
\* that string as message, a record keeps its type and message.
C22_ElementWiseMap ==
    (~aiLoading /\ wellFormedSource(chosenSource)) =>
        /\ ~panel.threw
        /\ panel.items = [i \in 1..Len(chosenSource.items) |->
                              expectedItem(chosenSource.items[i])]

\* C23 (refuted by the code): a source that is no well-formed list is shown
\* as an empty list of items, and rendering it does not throw.
C23_MalformedYieldsEmpty ==
    (~aiLoading /\ ~wellFormedSource(chosenSource)) =>
        /\ ~panel.threw
        /\ panel.items = <<>>

(***************************************************************************)
(* Part 5: the dashboard data (useDashboardData.js).                       *)
(*                                                                         *)
(* A call of fetchAllData is unused, flying (its requests are out), or     *)
(* settled: it threw, or it built its data from the bodies it received and *)
(* is resolved, or unsuccessful when one of the bodies was an error body.  *)
(* The chart bodies are left out: they end in data.charts only.            *)
(***************************************************************************)

\* the body of an error response: { success: false, error: ... }
ErrorBody == [success |-> FALSE]

\* bodies of GET /subscriptions
SubsBodies ==
    {ErrorBody} \cup
    {[success |-> TRUE,
      subscriptions |-> [i \in 1..n |-> [subscription_id |-> i]]] : n \in 1..2}

\* bodies of GET /analytics/summary
SummaryBodies == {ErrorBody, [success |-> TRUE, total_monthly_cost |-> 10]}

\* bodies of GET /analytics/insights
InsightsBodies == {ErrorBody, [success |-> TRUE, insights |-> JsArray(<<JsString("a")>>)]}

\* const newData = { stats, subscriptions, insights, ... }
newData(subsData, summaryData, insightsData) ==
    [kind |-> "data",
     \* (subsData.subscriptions || []).map(sub => ({...sub, id: sub.subscription_id || sub.id}))
     subscriptions |->
         IF "subscriptions" \in DOMAIN subsData
         THEN [i \in 1..Len(subsData.subscriptions) |->
                   [subscription_id |-> subsData.subscriptions[i].subscription_id,
                    id |-> subsData.subscriptions[i].subscription_id]]
         ELSE <<>>,
     \* summaryData.analytics?.statistics?.total_monthly_cost || 0
     total_cost |->
         IF "total_monthly_cost" \in DOMAIN summaryData
         THEN summaryData.total_monthly_cost
         ELSE 0,
     \* insightsData.insights || []
     insights |->
         dashboardInsights(IF "insights" \in DOMAIN insightsData
                           THEN insightsData.insights
                           ELSE JsUndefined)]

\* mutant: a refetch shows the loading state too
showLoadingAlways(c) == TRUE

\* fetchAllData(true) for the initial load, fetchAllData(false) for refetch()
showLoading(c) == c = 0

\* the call started last
lastStarted ==
    CHOOSE c \in Calls :
        /\ calls[c] # "unused"
        /\ \A later \in Calls : later > c => calls[later] = "unused"

\* useEffect(() => { fetchAllData(true) }, []) : the hook is mounted and the
\* initial load is under way
DashboardMounted ==
    /\ data = NoData
    /\ dataLoading = TRUE
    /\ dataError = "null"
    /\ calls = [c \in Calls |-> IF c = 0 THEN "flying" ELSE "unused"]
    /\ lastCall = [call |-> 0, step |-> "started"]
    /\ resultOfLast = NoData
    /\ overlapped = FALSE

\* refetch(), up to the requests. Its callers are rendered only when loading
\* is false (App returns the skeleton otherwise).
refetch(c) ==
    /\ c >= 1
    /\ calls[c] = "unused"
    /\ calls[c - 1] # "unused"
    /\ ~dataLoading
    /\ calls' = [calls EXCEPT ![c] = "flying"]
    /\ dataLoading' = (IF showLoading(c) THEN TRUE ELSE dataLoading)
    /\ lastCall' = [call |-> c, step |-> "started"]
    /\ resultOfLast' = NoData
    /\ overlapped' = (overlapped \/ \E other \in Calls : calls[other] = "flying")
    /\ UNCHANGED <<data, dataError>>
    /\ UNCHANGED outsideDashboard

\* the four responses arrive and parse: setData(newData); with showLoading
\* also setError(null) and, in finally, setLoading(false)
fetchAllDataResolves(c, subsData, summaryData, insightsData) ==
    /\ calls[c] = "flying"
    /\ data' = newData(subsData, summaryData, insightsData)
    /\ dataError' = (IF showLoading(c) THEN "null" ELSE dataError)
    /\ dataLoading' = (IF showLoading(c) THEN FALSE ELSE dataLoading)
    /\ calls' = [calls EXCEPT ![c] =
                     IF subsData.success /\ summaryData.success /\ insightsData.success
                     THEN "resolved" ELSE "unsuccessful"]
    /\ lastCall' = [call |-> c, step |-> calls'[c]]
    /\ resultOfLast' = (IF c = lastStarted THEN data' ELSE resultOfLast)
    /\ UNCHANGED overlapped
    /\ UNCHANGED outsideDashboard

\* a request or the parsing of a body throws: with showLoading
\* setError(err.message) and, in finally, setLoading(false)
fetchAllDataThrows(c) ==
    /\ calls[c] = "flying"
    /\ dataError' = (IF showLoading(c) THEN "message" ELSE dataError)
    /\ dataLoading' = (IF showLoading(c) THEN FALSE ELSE dataLoading)
    /\ calls' = [calls EXCEPT ![c] = "threw"]
    /\ lastCall' = [call |-> c, step |-> "threw"]
    /\ UNCHANGED <<data, resultOfLast, overlapped>>
    /\ UNCHANGED outsideDashboard

InitDashboard ==
    /\ DashboardMounted
    /\ InsightsIdle
    /\ ModalsIdle
    /\ DeleteIdle
    /\ opportunities = <<>>
    /\ sortedOpportunities = <<>>
    /\ total_potential_monthly_savings = 0
    /\ subscriptions = <<>>
    /\ now = DateOf(2024, 1, 31)
    /\ currentMonth = now
    /\ selectedDate = now
    /\ alerts = <<>>
    /\ loading = TRUE
    /\ unreadCount = 0
    /\ pending = [f \in Fetches |-> FALSE]
    /\ last = [op |-> "init", id |-> 0, fresh |-> <<>>]
    /\ before = NoBefore
    /\ markedSince = [f \in Fetches |-> {}]
    /\ dismissed = [id \in Ids |-> "no"]
    /\ resolved = ResolvedOff

NextDashboard ==
    \/ \E c \in Calls : refetch(c)
    \/ \E c \in Calls, subsData \in SubsBodies, summaryData \in SummaryBodies,
          insightsData \in InsightsBodies :
           fetchAllDataResolves(c, subsData, summaryData, insightsData)
    \/ \E c \in Calls : fetchAllDataThrows(c)

SpecDashboard == InitDashboard /\ [][NextDashboard]_vars

(* ------------------------ properties: dashboard ------------------------ *)

C28_LastStartedWins ==
    (/\ overlapped
     /\ \A c \in Calls : calls[c] \in {"unused", "resolved"}) =>
        data = resultOfLast

(***************************************************************************)
(* Part 6: the scroll lock of LiquidModal (LiquidModal.jsx).               *)
(*                                                                         *)
(* Every instance runs useEffect(..., [isOpen]): the effect runs when the  *)
(* instance is mounted and whenever its isOpen changes, after the cleanup  *)
(* of the effect before it; the cleanup also runs when the instance is     *)
(* unmounted. A step is one commit of one instance with its effects.       *)
(***************************************************************************)

\* the alert store, the calendar and the savings modal out of use
AlertsIdle ==
    /\ alerts = <<>>
    /\ loading = TRUE
    /\ unreadCount = 0
    /\ pending = [f \in Fetches |-> FALSE]
    /\ last = [op |-> "init", id |-> 0, fresh |-> <<>>]
    /\ before = NoBefore
    /\ markedSince = [f \in Fetches |-> {}]
    /\ dismissed = [id \in Ids |-> "no"]
    /\ resolved = ResolvedOff

CalendarIdle ==
    /\ subscriptions = <<>>
    /\ now = DateOf(2024, 1, 31)
    /\ currentMonth = now
    /\ selectedDate = now

SavingsIdle ==
    /\ opportunities = <<>>
    /\ sortedOpportunities = <<>>
    /\ total_potential_monthly_savings = 0

\* the body of the effect: lock when open, release otherwise
overflowAfterEffect(isOpen) == IF isOpen THEN "hidden" ELSE ""

\* the cleanup of the effect: release
overflowAfterCleanup == ""

\* an instance is mounted, open or closed: its effect runs
mountModal(i, isOpen) ==
    /\ modals[i] = "unmounted"
    /\ modals' = [modals EXCEPT ![i] = IF isOpen THEN "open" ELSE "closed"]
    /\ bodyOverflow' = overflowAfterEffect(isOpen)
    /\ htmlOverflow' = overflowAfterEffect(isOpen)
    /\ UNCHANGED outsideModals

\* isOpen turns true: the cleanup runs, then the effect
openModal(i) ==
    /\ modals[i] = "closed"
    /\ modals' = [modals EXCEPT ![i] = "open"]
    /\ bodyOverflow' = overflowAfterEffect(TRUE)
    /\ htmlOverflow' = overflowAfterEffect(TRUE)
    /\ UNCHANGED outsideModals

\* isOpen turns false: the cleanup runs, then the effect
closeModal(i) ==
    /\ modals[i] = "open"
    /\ modals' = [modals EXCEPT ![i] = "closed"]
    /\ bodyOverflow' = overflowAfterEffect(FALSE)
    /\ htmlOverflow' = overflowAfterEffect(FALSE)
    /\ UNCHANGED outsideModals

\* an instance is unmounted: the cleanup runs
unmountModal(i) ==
    /\ modals[i] # "unmounted"
    /\ modals' = [modals EXCEPT ![i] = "unmounted"]
    /\ bodyOverflow' = overflowAfterCleanup
    /\ htmlOverflow' = overflowAfterCleanup
    /\ UNCHANGED outsideModals

InitModals ==
    /\ ModalsIdle
    /\ DeleteIdle
    /\ DashboardIdle
    /\ InsightsIdle
    /\ SavingsIdle
    /\ CalendarIdle
    /\ AlertsIdle

NextModals ==
    \/ \E i \in Modals, isOpen \in BOOLEAN : mountModal(i, isOpen)
    \/ \E i \in Modals : openModal(i)
    \/ \E i \in Modals : closeModal(i)
    \/ \E i \in Modals : unmountModal(i)

SpecModals == InitModals /\ [][NextModals]_vars

(* -------------------------- properties: modals ------------------------- *)

\* C25 (refuted by the code): whenever a mounted LiquidModal is open, the
\* overflow of document.body is 'hidden'.
C25_ScrollLockedWhileOpen ==
    (\E i \in Modals : modals[i] = "open") => bodyOverflow = "hidden"

(***************************************************************************)
(* Part 7: deleting a subscription (SubscriptionList, unnamed/part_012).   *)
(*                                                                         *)
(* A subscription is its id, 1..MaxListed; 0 stands for null. A run of     *)
(* confirmDelete that gets past its guard is deleting while its DELETE     *)
(* request is out, refreshing while it awaits onUpdate(), and then done,   *)
(* or failed when the request threw or its response was not ok.            *)
(***************************************************************************)

MaxListed == 2

\* the subscriptions of the list
Listed == 1..MaxListed

\* a subscription is listed until a run that deleted it has refreshed the data
listed(sub) == \A a \in Attempts : ~(attempts[a].pc = "done" /\ attempts[a].sub = sub)

\* mutant: the guard only asks for a selected subscription
confirmBlockedUnselected(toDelete, deleting) == toDelete = 0

\* if (!subscriptionToDelete || deletingId) return;
confirmBlocked(toDelete, deleting) == toDelete = 0 \/ deleting # 0

\* handleDeleteClick(sub): the trash button of a row, disabled while that
\* row is under deletion
handleDeleteClick(sub) ==
    /\ listed(sub)
    /\ deletingId # sub
    /\ subscriptionToDelete' = sub
    /\ deleteModalOpen' = TRUE
    /\ lastStep' = "deleteClick"
    /\ UNCHANGED <<deletingId, attempts>>
    /\ UNCHANGED outsideDelete

\* confirmDelete, past its guard and up to the request: setDeletingId(sub.id)
confirmDelete(a) ==
    /\ deleteModalOpen
    /\ ~confirmBlocked(subscriptionToDelete, deletingId)
    /\ attempts[a].pc = "unused"
    /\ \A earlier \in Attempts : earlier < a => attempts[earlier].pc # "unused"
    /\ deletingId' = subscriptionToDelete
    /\ attempts' = [attempts EXCEPT ![a] = [pc |-> "deleting", sub |-> subscriptionToDelete]]
    /\ lastStep' = "confirm"
    /\ UNCHANGED <<deleteModalOpen, subscriptionToDelete>>
    /\ UNCHANGED outsideDelete

\* confirmDelete, stopped by its guard
confirmDeleteReturns ==
    /\ deleteModalOpen
    /\ confirmBlocked(subscriptionToDelete, deletingId)
    /\ lastStep' = "confirmIgnored"
    /\ UNCHANGED <<deletingId, deleteModalOpen, subscriptionToDelete, attempts>>
    /\ UNCHANGED outsideDelete

\* the request throws or the response is not ok: catch, then finally
deleteFails(a) ==
    /\ attempts[a].pc = "deleting"
    /\ attempts' = [attempts EXCEPT ![a].pc = "failed"]
    /\ deletingId' = 0
    /\ subscriptionToDelete' = 0
    /\ lastStep' = "deleteFailed"
    /\ UNCHANGED deleteModalOpen
    /\ UNCHANGED outsideDelete

\* the response is ok: await onUpdate?.() begins
deleteResponds(a) ==
    /\ attempts[a].pc = "deleting"
    /\ attempts' = [attempts EXCEPT ![a].pc = "refreshing"]
    /\ lastStep' = "deleteOk"
    /\ UNCHANGED <<deletingId, deleteModalOpen, subscriptionToDelete>>
    /\ UNCHANGED outsideDelete

\* onUpdate() has settled: setDeleteModalOpen(false), then finally
refreshSettles(a) ==
    /\ attempts[a].pc = "refreshing"
    /\ attempts' = [attempts EXCEPT ![a].pc = "done"]
    /\ deleteModalOpen' = FALSE
    /\ deletingId' = 0
    /\ subscriptionToDelete' = 0
    /\ lastStep' = "deleted"
    /\ UNCHANGED outsideDelete

\* onClose of the modal: () => !deletingId && setDeleteModalOpen(false)
onCloseDelete ==
    /\ deleteModalOpen
    /\ deleteModalOpen' = (deletingId # 0)
    /\ lastStep' = (IF deletingId # 0 THEN "closeIgnored" ELSE "closed")
    /\ UNCHANGED <<deletingId, subscriptionToDelete, attempts>>
    /\ UNCHANGED outsideDelete

InitDelete ==
    /\ DeleteIdle
    /\ ModalsIdle
    /\ DashboardIdle
    /\ InsightsIdle
    /\ SavingsIdle
    /\ CalendarIdle
    /\ AlertsIdle

NextDelete ==
    \/ \E sub \in Listed : handleDeleteClick(sub)
    \/ \E a \in Attempts : confirmDelete(a)
    \/ confirmDeleteReturns
    \/ \E a \in Attempts : deleteFails(a)
    \/ \E a \in Attempts : deleteResponds(a)
    \/ \E a \in Attempts : refreshSettles(a)
    \/ onCloseDelete

SpecDelete == InitDelete /\ [][NextDelete]_vars

(* -------------------------- properties: delete ------------------------- *)

\* the runs whose DELETE request is out, and the runs not yet finished
inFlight == {a \in Attempts : attempts[a].pc = "deleting"}
running == {a \in Attempts : attempts[a].pc \in {"deleting", "refreshing"}}

\* C29: at most one DELETE request is in flight; while deletingId is set no
\* second run of confirmDelete is under way and the modal stays open; and
\* deletingId is set exactly while a run is under way, so it is cleared
\* after every attempt, deleted or failed.
C29_OneDeleteAtATime ==
    /\ Cardinality(inFlight) <= 1
    /\ Cardinality(running) <= 1
    /\ deletingId # 0 => deleteModalOpen
    /\ deletingId # 0 <=> running # {}
    /\ \A a \in running : attempts[a].sub = deletingId

\* C29 witness: Confirm was pressed again while a DELETE request is out; no
\* second request was issued and the modal is still open
C29_Witness ==
    /\ lastStep = "confirmIgnored"
    /\ deletingId # 0
    /\ Cardinality(inFlight) = 1
    /\ deleteModalOpen

\* C30 (refuted by the code): whenever the modal is open and no delete is
\* under way, a subscription is selected.
C30_OpenModalHasSelection ==
    (deleteModalOpen /\ deletingId = 0) => subscriptionToDelete # 0

=============================================================================
